---- MODULE Spec2Model ----
(***************************************************************************)
(* Model of observable_primitives: the ObservableInteger wrapper           *)
(* (observables/numeric_base.py, observables/integer.py) and the condition *)
(* observers watching it (observers/integer.py).                           *)
(*                                                                         *)
(* Python values are records [t, n, d]: t is the runtime type ("int",      *)
(* "float" or "none"), n/d the exact value as a reduced fraction (d > 0).   *)
(* Only floats with a power-of-two denominator are modelled, so that the   *)
(* fraction is exactly the IEEE value Python computes.                     *)
(***************************************************************************)
EXTENDS Integers, Sequences, FiniteSets, TLC

\* ------------------------------------------------------------------ bounds
\* Largest magnitude of a value the wrapper may hold in the model.
MaxAbs == 3
\* Floats are modelled with denominators 2^k, k <= MaxDenLog.
MaxDenLog == 1
\* The demonstration (observers/integer.py, __main__): start value and increments.
DemoIncrements == 12
DemoStart == -2
\* The observer specification sets and counts values in -ObsLow..ObsHigh.
ObsLow == 2
ObsHigh == 10

\* ------------------------------------------------------------ Python values
None == [t |-> "none", n |-> 0, d |-> 1]
I(k) == [t |-> "int", n |-> k, d |-> 1]

Abs(k) == IF k < 0 THEN -k ELSE k

RECURSIVE Gcd(_, _)
Gcd(a, b) == IF b = 0 THEN a ELSE Gcd(b, a % b)

RECURSIVE Pow(_, _)
Pow(b, e) == IF e = 0 THEN 1 ELSE b * Pow(b, e - 1)

\* The float n/d, reduced by g = gcd(|n|, |d|), with the sign in the numerator.
Reduced(n, d, g, sign) == [t |-> "float", n |-> sign * (n \div g), d |-> sign * (d \div g)]
F(n, d) == Reduced(n, d, Gcd(Abs(n), Abs(d)), IF d < 0 THEN -1 ELSE 1)

\* The number n/d of type ty ("int" values always have d = 1 after reduction).
Mk(ty, n, d) == IF ty = "int" THEN I(n \div d) ELSE F(n, d)

IsInt(x) == x.t = "int"
IsNumber(x) == x.t \in {"int", "float"}
\* Type of the result of an arithmetic operator on two numbers.
Join(a, b) == IF a.t = "int" /\ b.t = "int" THEN "int" ELSE "float"

\* floor(n/d) for d > 0.
Floor(x) == x.n \div x.d
\* Python round(x) for a float: nearest integer, ties to the even one;
\* f = floor(x), r/d = x - f.
RoundFrom(f, r, d) ==
    IF 2 * r < d THEN f
    ELSE IF 2 * r > d THEN f + 1
    ELSE IF f % 2 = 0 THEN f ELSE f + 1
Round(x) == RoundFrom(x.n \div x.d, x.n - (x.n \div x.d) * x.d, x.d)
\* Python int(x): truncation toward zero.
Trunc(x) == IF x.n >= 0 THEN x.n \div x.d ELSE -((-x.n) \div x.d)
\* math.ceil(x)
Ceil(x) == -((-x.n) \div x.d)

Lt(a, b) == a.n * b.d < b.n * a.d
NumEq(a, b) == a.n * b.d = b.n * a.d

\* Results of a Python expression: a value, or a raised exception.
Ok(v) == [exc |-> "", v |-> v]
Raise(e) == [exc |-> e, v |-> None]

\* Bitwise operators on Python's unbounded two's-complement integers.
RECURSIVE BitAnd(_, _)
BitAnd(a, b) ==
    IF a = 0 \/ b = 0 THEN 0
    ELSE IF a = -1 THEN b
    ELSE IF b = -1 THEN a
    ELSE (a % 2) * (b % 2) + 2 * BitAnd(a \div 2, b \div 2)

RECURSIVE BitOr(_, _)
BitOr(a, b) ==
    IF a = 0 THEN b
    ELSE IF b = 0 THEN a
    ELSE IF a = -1 \/ b = -1 THEN -1
    ELSE (IF a % 2 = 1 \/ b % 2 = 1 THEN 1 ELSE 0) + 2 * BitOr(a \div 2, b \div 2)

RECURSIVE BitXor(_, _)
BitXor(a, b) ==
    IF a = 0 THEN b
    ELSE IF b = 0 THEN a
    ELSE IF a = -1 THEN -b - 1
    ELSE IF b = -1 THEN -a - 1
    ELSE (((a % 2) + (b % 2)) % 2) + 2 * BitXor(a \div 2, b \div 2)

\* a % b for b # 0, with q = floor(a / b).
ModFrom(a, b, q) == Mk(Join(a, b), a.n * b.d - q * b.n * a.d, a.d * b.d)

\* a <op> b as Python evaluates it on int and float operands.
BinOp(op, a, b) ==
    IF ~IsNumber(a) \/ ~IsNumber(b) THEN Raise("TypeError")
    ELSE IF op \in {"truediv", "floordiv", "mod"} /\ b.n = 0 THEN Raise("ZeroDivisionError")
    ELSE IF op \in {"lshift", "rshift", "and", "xor", "or"} /\ (~IsInt(a) \/ ~IsInt(b))
         THEN Raise("TypeError")
    ELSE IF op \in {"lshift", "rshift"} /\ b.n < 0 THEN Raise("ValueError")
    ELSE IF op = "pow" /\ b.n < 0 /\ a.n = 0 THEN Raise("ZeroDivisionError")
    ELSE Ok(CASE op = "add" -> Mk(Join(a, b), a.n * b.d + b.n * a.d, a.d * b.d)
              [] op = "sub" -> Mk(Join(a, b), a.n * b.d - b.n * a.d, a.d * b.d)
              [] op = "mul" -> Mk(Join(a, b), a.n * b.n, a.d * b.d)
              [] op = "truediv" -> F(a.n * b.d, a.d * b.n)
              [] op = "floordiv" -> Mk(Join(a, b), Floor(F(a.n * b.d, a.d * b.n)), 1)
              [] op = "mod" -> ModFrom(a, b, Floor(F(a.n * b.d, a.d * b.n)))
              \* exponents are integers in the model
              [] op = "pow" -> IF b.n >= 0
                               THEN Mk(Join(a, b), Pow(a.n, b.n), Pow(a.d, b.n))
                               ELSE F(Pow(a.d, -b.n), Pow(a.n, -b.n))
              [] op = "lshift" -> I(a.n * Pow(2, b.n))
              [] op = "rshift" -> I(a.n \div Pow(2, b.n))
              [] op = "and" -> I(BitAnd(a.n, b.n))
              [] op = "xor" -> I(BitXor(a.n, b.n))
              [] op = "or" -> I(BitOr(a.n, b.n)))

\* Values the model keeps: magnitude at most MaxAbs, denominator 2^k.
InBounds(x) ==
    /\ x.n <= MaxAbs * x.d
    /\ -x.n <= MaxAbs * x.d
    /\ \E k \in 0..MaxDenLog : x.d = Pow(2, k)

\* ------------------------------------------------- condition observers
\* A reason string, by the branch that wrote it and the values it formats:
\*   Specific: v = new_val                 Divisible: v = new_val, k = div_val
\*   Less/More: v = new_val, k = threshold First, Last: no values
\*   Relative: v = step, k = at_relative   None: self._reason = None
Reason(tag, v, k) == [tag |-> tag, v |-> v, k |-> k]
NoReason == Reason("None", None, None)

\* Python's a == b on numbers and None.
PyEq(a, b) ==
    IF IsNumber(a) /\ IsNumber(b) THEN NumEq(a, b) ELSE a.t = b.t

\* Python's `x in list`.
InList(x, list) == \E i \in 1..Len(list) : PyEq(x, list[i])

\* An "int | list[int] | None" constructor argument.
ArgNone == [form |-> "none", items |-> <<>>]
ArgScalar(x) == [form |-> "scalar", items |-> <<x>>]
ArgList(xs) == [form |-> "list", items |-> xs]

\* The observer's (_status, _reason) after a call, and the exception it raised.
Status(st, rs, exc) == [status |-> st, reason |-> rs, exc |-> exc]

\* IntegerConditionObserver._update_status, lines 50-64: the threshold checks.
IntegerThresholds(cfg, new_val) ==
    IF cfg.if_less_than.t # "none" /\ Lt(new_val, cfg.if_less_than)
    THEN Status(TRUE, Reason("Less", new_val, cfg.if_less_than), "")
    ELSE IF cfg.if_more_than.t # "none" /\ Lt(cfg.if_more_than, new_val)
         THEN Status(TRUE, Reason("More", new_val, cfg.if_more_than), "")
    ELSE Status(FALSE, NoReason, "")

\* Lines 43-48: `for div_val in self.divisible_by: if (new_val % div_val) == 0`,
\* from the i-th divisor on; m is new_val % list[i]. `%` may raise, which leaves
\* (_status, _reason) = old.
RECURSIVE DivisibleBy(_, _, _, _, _)
DivisibleAt(cfg, old, new_val, list, i, m) ==
    IF m.exc # "" THEN Status(old.status, old.reason, m.exc)
    ELSE IF m.v.n = 0 THEN Status(TRUE, Reason("Divisible", new_val, list[i]), "")
    ELSE DivisibleBy(cfg, old, new_val, list, i + 1)
DivisibleBy(cfg, old, new_val, list, i) ==
    IF i > Len(list) THEN IntegerThresholds(cfg, new_val)
    ELSE DivisibleAt(cfg, old, new_val, list, i, BinOp("mod", new_val, list[i]))

\* Variant: the divisors are tried before the specific values.
IntegerUpdateStatusDivisorsFirst(cfg, old, new_val) ==
    IF cfg.divisible_by.form # "none"
       /\ \E i \in 1..Len(cfg.divisible_by.items) :
             BinOp("mod", new_val, cfg.divisible_by.items[i]) = Ok(I(0))
    THEN DivisibleBy(cfg, old, new_val, cfg.divisible_by.items, 1)
    ELSE IF InList(new_val, cfg.at_specific_value)
         THEN Status(TRUE, Reason("Specific", new_val, None), "")
    ELSE IntegerThresholds(cfg, new_val)

\* Variant: the divisors are never tried.
IntegerUpdateStatusNoDivisors(cfg, old, new_val) ==
    IF InList(new_val, cfg.at_specific_value)
    THEN Status(TRUE, Reason("Specific", new_val, None), "")
    ELSE IntegerThresholds(cfg, new_val)

\* Variant: when nothing matches, status and reason are left as they were.
KeptUnlessTriggered(old, r) ==
    IF r.exc = "" /\ ~r.status THEN Status(old.status, old.reason, "") ELSE r
IntegerUpdateStatusSticky(cfg, old, new_val) ==
    KeptUnlessTriggered(old,
        IF InList(new_val, cfg.at_specific_value)
        THEN Status(TRUE, Reason("Specific", new_val, None), "")
        ELSE IF cfg.divisible_by.form = "none" THEN IntegerThresholds(cfg, new_val)
        ELSE DivisibleBy(cfg, old, new_val, cfg.divisible_by.items, 1))

\* IntegerConditionObserver._update_status; old is (_status, _reason) before.
IntegerUpdateStatus(cfg, old, new_val) ==
    IF InList(new_val, cfg.at_specific_value)
    THEN Status(TRUE, Reason("Specific", new_val, None), "")
    ELSE IF cfg.divisible_by.form = "none" THEN IntegerThresholds(cfg, new_val)
    ELSE DivisibleBy(cfg, old, new_val, cfg.divisible_by.items, 1)

\* step = round(self.last_value * self.at_relative)
RelativeStep(cfg) == Round(BinOp("mul", cfg.last_value, cfg.at_relative).v)

\* Lines 100-103, with m = new_val % step: the branch writes _reason only and
\* returns True, so _status stays what the integer chain (base) left.
RelativeAt(cfg, base, step, m) ==
    IF m.exc # "" THEN Status(base.status, base.reason, m.exc)
    ELSE IF m.v.n = 0
         THEN Status(base.status, Reason("Relative", step, cfg.at_relative), "")
    ELSE base
RelativeWith(cfg, base, new_val, step) ==
    RelativeAt(cfg, base, step, BinOp("mod", new_val, step))

\* The relative branch (lines 97-103), entered with (_status, _reason) = base.
CounterRelative(cfg, base, new_val) ==
    IF cfg.last_value.t # "none" /\ cfg.at_relative.t # "none"
    THEN RelativeWith(cfg, base, new_val, I(RelativeStep(cfg)))
    ELSE base

\* Variant: the counter checks run only when the integer chain matched nothing.
CounterAfterIntegerNoOverride(cfg, base, new_val) ==
    IF base.exc # "" \/ base.status THEN base
    ELSE IF cfg.if_first_iteration /\ PyEq(new_val, cfg.first_val)
         THEN Status(TRUE, Reason("First", None, None), "")
    ELSE IF cfg.last_value.t # "none" /\ PyEq(new_val, cfg.last_value)
         THEN Status(TRUE, Reason("Last", None, None), "")
    ELSE CounterRelative(cfg, base, new_val)

\* Lines 85-103, after the integer chain left (_status, _reason) = base.
CounterAfterInteger(cfg, base, new_val) ==
    IF base.exc # "" THEN base
    ELSE IF cfg.if_first_iteration /\ PyEq(new_val, cfg.first_val)
         THEN Status(TRUE, Reason("First", None, None), "")
    ELSE IF cfg.last_value.t # "none" /\ PyEq(new_val, cfg.last_value)
         THEN Status(TRUE, Reason("Last", None, None), "")
    ELSE CounterRelative(cfg, base, new_val)

\* Variant: the counter does not run the integer chain first.
CounterUpdateStatusNoSuper(cfg, old, new_val) ==
    CounterAfterInteger(cfg, Status(old.status, old.reason, ""), new_val)

\* CounterConditionObserver._update_status
CounterUpdateStatus(cfg, old, new_val) ==
    CounterAfterInteger(cfg, IntegerUpdateStatus(cfg, old, new_val), new_val)

\* ------------------------------------------------------- observer objects
\* Fields an observer object holds. An IntegerConditionObserver has no counter
\* fields; they are kept at the values that switch the counter branches off.
NoCfg ==
    [divisible_by |-> ArgNone, if_less_than |-> None, if_more_than |-> None,
     at_specific_value |-> <<>>, at_relative |-> None,
     if_first_iteration |-> FALSE, last_value |-> None, first_val |-> None]

\* An observer that has not been constructed.
NoObserver == [kind |-> "none", cfg |-> NoCfg, status |-> FALSE, reason |-> NoReason]

\* IntegerConditionObserver.__init__, lines 21-26: the fields it stores.
IntegerFields(args) ==
    [NoCfg EXCEPT
        !.divisible_by = IF args.divisible_by.form = "scalar"
                         THEN ArgList(args.divisible_by.items)
                         ELSE args.divisible_by,
        !.if_less_than = args.if_less_than,
        !.if_more_than = args.if_more_than,
        !.at_specific_value = IF args.at_specific_value.form = "list"
                              THEN args.at_specific_value.items
                              ELSE IF args.at_specific_value.form = "scalar"
                                   THEN args.at_specific_value.items
                                   ELSE <<None>>]

\* Line 74: at_relative if isinstance(at_relative, float) else 1. / float(at_relative)
AtRelative(at_relative) ==
    IF at_relative.t = "float" THEN Ok(at_relative)
    ELSE IF at_relative.t = "none" THEN Raise("TypeError")
    ELSE BinOp("truediv", F(1, 1), F(at_relative.n, 1))

\* CounterConditionObserver.__init__, lines 74-79: the fields it stores.
CounterFields(args) ==
    [IntegerFields([divisible_by |-> args.at_every,
                    if_less_than |-> args.if_less_than,
                    if_more_than |-> args.if_more_than,
                    at_specific_value |-> args.at_specific_value])
     EXCEPT !.at_relative = AtRelative(args.at_relative).v,
            !.if_first_iteration = args.if_first_count,
            !.last_value = args.last_value,
            !.first_val = args.first_val]

\* self._update_status(...) of an observer object, by its class.
UpdateStatus(o, new_val) ==
    IF o.kind = "counter"
    THEN CounterUpdateStatus(o.cfg, [status |-> o.status, reason |-> o.reason], new_val)
    ELSE IntegerUpdateStatus(o.cfg, [status |-> o.status, reason |-> o.reason], new_val)

\* --------------------------------------------------------------- the state
VARIABLES
    val,          \* ObservableNumeric._val
    final_value,  \* ObservableInteger.final_value
    policy,       \* ObservableInteger._incorrect_type_policy
    observers,    \* the observer objects, by name
    registry,     \* the hub's registered observers, in registration order
    event,        \* the keyword arguments of the last update_observers call
    last,         \* the last call made on the wrapper or a constructor, and how it ended
    ret,          \* what the last call returned
    gen           \* the generator object made by range(), if any

vars == <<val, final_value, policy, observers, registry, event, last, ret, gen>>

ObsIds == {"io", "co"}

NoEvent == [method |-> "", other |-> None, previous |-> None, new_val |-> None]
Event(method, other, previous, new_val) ==
    [method |-> method, other |-> other, previous |-> previous, new_val |-> new_val]

\* kind: "new" | "mutate" | "read" | "construct" | "range"; phase: how far the call
\* got ("arith", "coerce", "notify", "done"); exc: the exception it raised, or "".
Call(kind, phase, exc) == [kind |-> kind, phase |-> phase, exc |-> exc]

\* state: "none" | "created" | "suspended" (at the yield) | "done" | "raised";
\* idx: how many values of the native range were consumed; yielded: the wrapper's
\* value at each yield; sent: the events sent by the generator's set calls.
NoGen == [state |-> "none", args |-> <<>>, idx |-> 0, yielded |-> <<>>, sent |-> 0]

\* _incorrect_type_policy values: strings, callables, and anything else.
PolicyStr(s) == [kind |-> "str", s |-> s]
PolicyFn(f) == [kind |-> "callable", s |-> f]
PolicyOther == [kind |-> "other", s |-> "None"]

\* str.lower() on the policy strings of the model.
Lower(s) ==
    CASE s = "Round" -> "round"
      [] s = "ROUND" -> "round"
      [] s = "Int" -> "int"
      [] s = "INT" -> "int"
      [] OTHER -> s

\* The callables of the model: math.floor, math.ceil, and lambda v: v.
ApplyFn(f, v) ==
    CASE f = "floor" -> Ok(I(Floor(v)))
      [] f = "ceil" -> Ok(I(Ceil(v)))
      [] f = "identity" -> Ok(v)

\* Variant: the policy "round" truncates.
CoerceTruncatingRound(pol, v) ==
    IF IsInt(v) THEN Ok(v)
    ELSE IF pol.kind = "str"
         THEN IF Lower(pol.s) \in {"round", "int"}
              THEN IF IsNumber(v) THEN Ok(I(Trunc(v))) ELSE Raise("TypeError")
              ELSE Raise("ValueError")
         ELSE IF pol.kind = "callable" THEN ApplyFn(pol.s, v)
         ELSE Raise("ValueError")

\* Variant: the policy is consulted whatever the type of the value.
CoerceAlways(pol, v) ==
    IF pol.kind = "str"
    THEN IF Lower(pol.s) = "round"
         THEN IF IsNumber(v) THEN Ok(I(Round(v))) ELSE Raise("TypeError")
         ELSE IF Lower(pol.s) = "int"
              THEN IF IsNumber(v) THEN Ok(I(Trunc(v))) ELSE Raise("TypeError")
              ELSE Raise("ValueError")
    ELSE IF pol.kind = "callable" THEN ApplyFn(pol.s, v)
    ELSE Raise("ValueError")

\* _ireturn, lines 151-169: the type check and the coercion of self._val.
Coerce(pol, v) ==
    IF IsInt(v) THEN Ok(v)
    ELSE IF pol.kind = "str"
         THEN IF Lower(pol.s) = "round"
              THEN IF IsNumber(v) THEN Ok(I(Round(v))) ELSE Raise("TypeError")
              ELSE IF Lower(pol.s) = "int"
                   THEN IF IsNumber(v) THEN Ok(I(Trunc(v))) ELSE Raise("TypeError")
                   ELSE Raise("ValueError")
         ELSE IF pol.kind = "callable" THEN ApplyFn(pol.s, v)
         ELSE Raise("ValueError")

\* Observable.update_observers: each registered observer's update hook, in
\* registration order, from the i-th on; r is what the i-th observer's
\* _update_status did. An exception ends the fan-out.
RECURSIVE UpdateObservers(_, _, _, _)
UpdateObserver(obs, reg, i, new_val, r) ==
    IF r.exc # ""
    THEN [obs |-> [obs EXCEPT ![reg[i]].status = r.status, ![reg[i]].reason = r.reason],
          exc |-> r.exc]
    ELSE UpdateObservers([obs EXCEPT ![reg[i]].status = r.status,
                                     ![reg[i]].reason = r.reason],
                         reg, i + 1, new_val)
UpdateObservers(obs, reg, i, new_val) ==
    IF i > Len(reg) THEN [obs |-> obs, exc |-> ""]
    ELSE UpdateObserver(obs, reg, i, new_val, UpdateStatus(obs[reg[i]], new_val))

\* ------------------------------------------------------ mutating operators
\* What a mutating call leaves behind: the wrapper's value, the observers, the
\* last event sent, the phase the call reached and the exception it raised.
Outcome(v, obs, ev, phase, exc) ==
    [val |-> v, observers |-> obs, event |-> ev, phase |-> phase, exc |-> exc]

\* Variant: the event carries the value after the operation as `previous`.
NotifiedStale(method, other, previous, new_val, n) ==
    Outcome(new_val, n.obs, Event(method, other, new_val, new_val),
            IF n.exc = "" THEN "done" ELSE "notify", n.exc)

\* _ireturn, line 172: self.update_observers(...) ended as n.
Notified(method, other, previous, new_val, n) ==
    Outcome(new_val, n.obs, Event(method, other, previous, new_val),
            IF n.exc = "" THEN "done" ELSE "notify", n.exc)

\* Variant: the observers are notified before the type check rejects the value.
CoercedNotifyFirst(method, other, previous, v1, c) ==
    IF c.exc # ""
    THEN Outcome(v1, UpdateObservers(observers, registry, 1, v1).obs, event, "coerce", c.exc)
    ELSE Notified(method, other, previous, c.v, UpdateObservers(observers, registry, 1, c.v))

\* Variant: a rejected value is rolled back to the value before the call.
CoercedRollingBack(method, other, previous, v1, c) ==
    IF c.exc # "" THEN Outcome(previous, observers, event, "coerce", c.exc)
    ELSE Notified(method, other, previous, c.v, UpdateObservers(observers, registry, 1, c.v))

\* _ireturn after the type check and coercion of self._val = v1 ended as c.
Coerced(method, other, previous, v1, c) ==
    IF c.exc # "" THEN Outcome(v1, observers, event, "coerce", c.exc)
    ELSE Notified(method, other, previous, c.v, UpdateObservers(observers, registry, 1, c.v))

\* ObservableInteger._ireturn, entered with self._val = v1.
IReturn(method, other, previous, v1) ==
    Coerced(method, other, previous, v1, Coerce(policy, v1))

\* Variant: an event is sent although the arithmetic raised.
StoredNotifying(method, other, previous, r) ==
    IF r.exc # ""
    THEN Outcome(previous, observers, Event(method, other, previous, previous), "arith", r.exc)
    ELSE IReturn(method, other, previous, r.v)

\* self._val <op>= other ended as r; it raises before anything is stored.
Stored(method, other, previous, r) ==
    IF r.exc # "" THEN Outcome(previous, observers, event, "arith", r.exc)
    ELSE IReturn(method, other, previous, r.v)

\* An augmented assignment: previous = self._val; self._val <op>= other;
\* return self._ireturn(method=..., other=other, previous=previous).
Augmented(method, op, other) == Stored(method, other, val, BinOp(op, val, other))

\* Variant: set reads `previous` after it has assigned the new value.
SetValueSnapshotAfter(v) == IReturn("set", v, v, v)

\* ObservableNumeric.set(val): previous = self._val; self._val = val; _ireturn.
SetValue(v) == IReturn("set", v, val, v)

\* Binding a call to `def set(self, val)`: any other keyword is a TypeError.
BindSet(keywords) == IF keywords \subseteq {"val"} THEN "" ELSE "TypeError"

Self == [t |-> "self", n |-> 0, d |-> 1]
Returned(vals) == [exc |-> "", vals |-> vals]
Raised(e) == [exc |-> e, vals |-> <<>>]

\* The wrapper after a mutating call that ended as `res`.
Commit(res) ==
    /\ val' = res.val
    /\ observers' = res.observers
    /\ event' = res.event
    /\ last' = Call("mutate", res.phase, res.exc)
    /\ ret' = IF res.exc = "" THEN Returned(<<Self>>) ELSE Raised(res.exc)
    /\ UNCHANGED <<final_value, policy, registry, gen>>

\* A mutating call of the pipeline: the model keeps the values within bounds.
Mutate(res) == InBounds(res.val) /\ Commit(res)

\* Operands of the calls the model makes.
Operands == {I(-1), I(0), I(2), F(1, 2)}
IntOperands == {o \in Operands : IsInt(o)}

IAdd == \E other \in Operands : Mutate(Augmented("__iadd__", "add", other))
ISub == \E other \in Operands : Mutate(Augmented("__isub__", "sub", other))
IMul == \E other \in Operands : Mutate(Augmented("__imul__", "mul", other))
ITrueDiv == \E other \in Operands : Mutate(Augmented("__itruediv__", "truediv", other))
IFloorDiv == \E other \in Operands : Mutate(Augmented("__ifloordiv__", "floordiv", other))
IMod == \E other \in Operands : Mutate(Augmented("__imod__", "mod", other))
IPow == \E other \in IntOperands : Mutate(Augmented("__ipow__", "pow", other))
ILShift == \E other \in Operands : Mutate(Augmented("__ilshift__", "lshift", other))
IRShift == \E other \in Operands : Mutate(Augmented("__irshift__", "rshift", other))
IAnd == \E other \in Operands : Mutate(Augmented("__iand__", "and", other))
IXor == \E other \in Operands : Mutate(Augmented("__ixor__", "xor", other))
IOr == \E other \in Operands : Mutate(Augmented("__ior__", "or", other))
Set == \E v \in Operands : Mutate(SetValue(v))

\* ------------------------------------------------------ observer construction
\* The observer object o after _initialize, which evaluates the chain on the
\* wrapper's current value and ended as r; exc is the exception it raised.
Initialized(o, r) ==
    [o |-> [o EXCEPT !.status = r.status, !.reason = r.reason], exc |-> r.exc]
\* Variant: the constructor does not evaluate the chain.
InitializeSkipped(o, v) == [o |-> o, exc |-> ""]
Initialize(o, v) == Initialized(o, UpdateStatus(o, v))

\* The observer object after the base constructor (status = default = False,
\* reason None), the subclass fields cfg, and _initialize.
Built(kind, cfg, v) ==
    Initialize([kind |-> kind, cfg |-> cfg, status |-> FALSE, reason |-> NoReason], v)

\* The state after a constructor that registered `id` and built b.
Registered(id, b) ==
    /\ observers' = [observers EXCEPT ![id] = b.o]
    /\ registry' = Append(registry, id)
    /\ last' = Call("construct", IF b.exc = "" THEN "done" ELSE "initialize", b.exc)
    /\ ret' = IF b.exc = "" THEN Returned(<<>>) ELSE Raised(b.exc)
    /\ UNCHANGED <<val, final_value, policy, event, gen>>

\* IntegerConditionObserver(observable=wrapper, **args): the base constructor
\* registers the observer, then _initialize runs.
ConstructInteger(args) ==
    /\ observers["io"].kind = "none"
    /\ Registered("io", Built("integer", IntegerFields(args), val))

\* CounterConditionObserver(observable=wrapper, **args): line 74 (a) runs before
\* the base constructors, so an exception there leaves nothing registered.
ConstructCounterWith(args, a) ==
    IF a.exc # ""
    THEN /\ last' = Call("construct", "arith", a.exc)
         /\ ret' = Raised(a.exc)
         /\ UNCHANGED <<val, final_value, policy, event, gen, observers, registry>>
    ELSE Registered("co", Built("counter", CounterFields(args), val))
ConstructCounter(args) ==
    /\ observers["co"].kind = "none"
    /\ ConstructCounterWith(args, AtRelative(args.at_relative))

IntegerArgs(div, less, more, specific) ==
    [divisible_by |-> div, if_less_than |-> less, if_more_than |-> more,
     at_specific_value |-> specific]

CounterArgs(every, rel, first, lastv, less, more, specific, firstv) ==
    [at_every |-> every, at_relative |-> rel, if_first_count |-> first,
     last_value |-> lastv, if_less_than |-> less, if_more_than |-> more,
     at_specific_value |-> specific, first_val |-> firstv]

\* ObservableInteger(val, final_value=None, incorrect_type_handler=policy)
NewWrapper(v, pol) ==
    /\ val = v
    /\ final_value = None
    /\ policy = pol
    /\ observers = [id \in ObsIds |-> NoObserver]
    /\ registry = <<>>
    /\ event = NoEvent
    /\ last = Call("new", "done", "")
    /\ ret = Returned(<<>>)
    /\ gen = NoGen

\* --------------------------------------------- the mutation pipeline (Spec)
Policies ==
    {PolicyStr("round"), PolicyStr("Round"), PolicyStr("int"), PolicyStr("truncate"),
     PolicyFn("floor"), PolicyFn("identity"), PolicyOther}

\* The observers watching the wrapper in the pipeline specification.
PipelineInteger == IntegerArgs(ArgScalar(I(3)), I(-1), I(2), ArgNone)
PipelineCounter ==
    CounterArgs(ArgList(<<I(3)>>), F(1, 2), TRUE, I(3), None, None, ArgScalar(I(1)), I(0))

InitialValues == {I(0), I(1)}

\* w = ObservableInteger(v, incorrect_type_handler=pol), then an
\* IntegerConditionObserver and a CounterConditionObserver constructed on w.
Init ==
    \E v \in InitialValues, pol \in Policies :
        /\ val = v
        /\ final_value = None
        /\ policy = pol
        /\ observers = [id \in ObsIds |->
                          IF id = "io"
                          THEN Built("integer", IntegerFields(PipelineInteger), v).o
                          ELSE Built("counter", CounterFields(PipelineCounter), v).o]
        /\ registry = <<"io", "co">>
        /\ event = NoEvent
        /\ last = Call("construct", "done", "")
        /\ ret = Returned(<<>>)
        /\ gen = NoGen

Next ==
    \/ IAdd \/ ISub \/ IMul \/ ITrueDiv \/ IFloorDiv \/ IMod \/ IPow
    \/ ILShift \/ IRShift \/ IAnd \/ IXor \/ IOr \/ Set

Spec == Init /\ [][Next]_vars

\* ------------------------------------------------------ read-only operators
Bool(b) == [t |-> "bool", n |-> IF b THEN 1 ELSE 0, d |-> 1]
Value(r) == IF r.exc # "" THEN Raised(r.exc) ELSE Returned(<<r.v>>)
\* divmod(a, b) = (a // b, a % b)
Pair(q, r) == IF q.exc # "" THEN Raised(q.exc) ELSE Returned(<<q.v, r.v>>)

Comparisons == {"__lt__", "__le__", "__eq__", "__ne__", "__ge__", "__gt__"}
Unary == {"__neg__", "__pos__", "__abs__", "__invert__", "__index__", "__bool__"}
Conversions == {"__complex__", "__int__", "__float__", "__round__"}
Binary ==
    {"__add__", "__sub__", "__mul__", "__truediv__", "__floordiv__", "__mod__",
     "__divmod__", "__lshift__", "__rshift__", "__and__", "__or__", "__xor__"}
Reflected ==
    {"__rfloordiv__", "__rmod__", "__rdivmod__", "__rlshift__", "__rrshift__",
     "__rand__", "__ror__", "__rxor__"}
Powers == {"__pow__", "__rpow__"}
ReadOnlyMethods == Comparisons \cup Unary \cup Conversions \cup Binary \cup Reflected \cup Powers

\* What a read-only operator returns for self._val = v and the operand other.
ReadResult(method, v, other) ==
    CASE method = "__lt__" -> Returned(<<Bool(Lt(v, other))>>)
      [] method = "__le__" -> Returned(<<Bool(~Lt(other, v))>>)
      [] method = "__eq__" -> Returned(<<Bool(PyEq(v, other))>>)
      [] method = "__ne__" -> Returned(<<Bool(~PyEq(v, other))>>)
      [] method = "__ge__" -> Returned(<<Bool(~Lt(v, other))>>)
      [] method = "__gt__" -> Returned(<<Bool(Lt(other, v))>>)
      [] method = "__neg__" -> Returned(<<[v EXCEPT !.n = -v.n]>>)
      [] method = "__pos__" -> Returned(<<v>>)
      [] method = "__abs__" -> Returned(<<[v EXCEPT !.n = Abs(v.n)]>>)
      [] method = "__invert__" ->
            IF IsInt(v) THEN Returned(<<I(-v.n - 1)>>) ELSE Raised("TypeError")
      [] method = "__index__" -> Returned(<<v>>)
      [] method = "__bool__" -> Returned(<<Bool(v.n # 0)>>)
      [] method = "__complex__" -> Returned(<<[v EXCEPT !.t = "complex"]>>)
      [] method = "__int__" -> Returned(<<I(Trunc(v))>>)
      [] method = "__float__" -> Returned(<<[v EXCEPT !.t = "float"]>>)
      [] method = "__round__" -> Returned(<<IF IsInt(v) THEN v ELSE I(Round(v))>>)
      [] method = "__add__" -> Value(BinOp("add", v, other))
      [] method = "__sub__" -> Value(BinOp("sub", v, other))
      [] method = "__mul__" -> Value(BinOp("mul", v, other))
      [] method = "__truediv__" -> Value(BinOp("truediv", v, other))
      [] method = "__floordiv__" -> Value(BinOp("floordiv", v, other))
      [] method = "__rfloordiv__" -> Value(BinOp("floordiv", other, v))
      [] method = "__mod__" -> Value(BinOp("mod", v, other))
      [] method = "__rmod__" -> Value(BinOp("mod", other, v))
      [] method = "__divmod__" -> Pair(BinOp("floordiv", v, other), BinOp("mod", v, other))
      [] method = "__rdivmod__" -> Pair(BinOp("floordiv", other, v), BinOp("mod", other, v))
      [] method = "__pow__" -> Value(BinOp("pow", v, other))
      [] method = "__rpow__" -> Value(BinOp("pow", other, v))
      [] method = "__lshift__" -> Value(BinOp("lshift", v, other))
      [] method = "__rlshift__" -> Value(BinOp("lshift", other, v))
      [] method = "__rshift__" -> Value(BinOp("rshift", v, other))
      [] method = "__rrshift__" -> Value(BinOp("rshift", other, v))
      [] method = "__and__" -> Value(BinOp("and", v, other))
      [] method = "__rand__" -> Value(BinOp("and", other, v))
      [] method = "__or__" -> Value(BinOp("or", v, other))
      [] method = "__ror__" -> Value(BinOp("or", other, v))
      [] method = "__xor__" -> Value(BinOp("xor", v, other))
      [] method = "__rxor__" -> Value(BinOp("xor", other, v))

\* The state after a read-only operator returned (or raised) r.
Answered(r) ==
    /\ ret' = r
    /\ last' = Call("read", "done", r.exc)
    /\ UNCHANGED <<val, final_value, policy, observers, registry, event, gen>>

\* Variant: the operator stores its result, as its augmented twin does.
ReadOnlyStoring(method, other) ==
    /\ ret' = ReadResult(method, val, other)
    /\ last' = Call("read", "done", ret'.exc)
    /\ val' = IF ret'.exc = "" THEN ret'.vals[1] ELSE val
    /\ UNCHANGED <<final_value, policy, observers, registry, event, gen>>

\* wrapper <op> other, other <op> wrapper, <op> wrapper, int(wrapper), ...
ReadOnly(method, other) == Answered(ReadResult(method, val, other))

\* Exponents are integers in the model.
ReadOperands(method) ==
    IF method = "__pow__" THEN IntOperands
    ELSE IF method = "__rpow__" THEN {o \in Operands : val.d = 1}
    ELSE Operands

Read == \E method \in ReadOnlyMethods : \E other \in ReadOperands(method) : ReadOnly(method, other)

\* A wrapper under a rounding or a rejecting policy, read between mutations.
ReadPolicies == {PolicyStr("round"), PolicyStr("truncate")}
InitRead == Init /\ policy \in ReadPolicies
NextRead == Read \/ Set \/ ITrueDiv
SpecRead == InitRead /\ [][NextRead]_vars

\* ------------------------------------------------------------------ range
\* Python's range(*args) for one or two integer bounds, as a sequence.
Upper(args) == IF Len(args) = 1 THEN args[1] ELSE args[2]
Lower_(args) == IF Len(args) = 1 THEN 0 ELSE args[1]
NativeRange(args) ==
    [k \in 1..(IF Upper(args) > Lower_(args) THEN Upper(args) - Lower_(args) ELSE 0)
        |-> Lower_(args) + k - 1]

RangeArgs == {<<0>>, <<2>>, <<5>>, <<1, 3>>, <<3, 1>>}

\* wrapper.range(*args): calling a generator function runs none of its body.
RangeCall ==
    \E args \in RangeArgs :
        /\ gen.state = "none"
        /\ gen' = [NoGen EXCEPT !.state = "created", !.args = args]
        /\ last' = Call("range", "done", "")
        /\ ret' = Returned(<<>>)
        /\ UNCHANGED <<val, final_value, policy, observers, registry, event>>

\* Line 205, after self.set(...) for the k-th value ended as res: the generator
\* yields what set returned, or ends with the exception set raised.
RangeYield(res, k) ==
    /\ val' = res.val
    /\ observers' = res.observers
    /\ event' = res.event
    /\ gen' = [gen EXCEPT
                 !.state = IF res.exc = "" THEN "suspended" ELSE "raised",
                 !.idx = k,
                 !.yielded = IF res.exc = "" THEN Append(@, res.val) ELSE @,
                 !.sent = IF res.phase \in {"done", "notify"} THEN @ + 1 ELSE @]
    /\ last' = Call("range", res.phase, res.exc)
    /\ ret' = IF res.exc = "" THEN Returned(<<Self>>) ELSE Raised(res.exc)

\* Lines 204-205, at the k-th value of range(*args): `yield self.set(i,
\* method="range")`, where the call must first bind to set(self, val).
RangeIterate(k, bound) ==
    IF k > Len(NativeRange(gen.args))
    THEN /\ gen' = [gen EXCEPT !.state = "done"]
         /\ last' = Call("range", "done", "StopIteration")
         /\ ret' = Raised("StopIteration")
         /\ UNCHANGED <<val, observers, event>>
    ELSE IF bound # ""
         THEN /\ gen' = [gen EXCEPT !.state = "raised", !.idx = k]
              /\ last' = Call("range", "call", bound)
              /\ ret' = Raised(bound)
              /\ UNCHANGED <<val, observers, event>>
         ELSE RangeYield(SetValue(I(NativeRange(gen.args)[k])), k)

\* next() on the generator: from its start (lines 200-203 set final_value) or
\* from the yield, up to the next yield, the end of the loop or an exception.
RangeNext ==
    /\ gen.state \in {"created", "suspended"}
    /\ final_value' = IF gen.state = "created" THEN I(Upper(gen.args) - 1) ELSE final_value
    /\ RangeIterate(gen.idx + 1, BindSet({"val", "method"}))
    /\ UNCHANGED <<policy, registry>>

InitRange == Init /\ policy = PolicyStr("round")
NextRange == RangeCall \/ RangeNext \/ Set \/ IAdd
SpecRange == InitRange /\ [][NextRange]_vars

\* ------------------------------------------- the observers alone (SpecObs)
\* Constructor arguments the observer specification draws from.
ObsDivisors == {ArgNone, ArgScalar(I(2)), ArgList(<<I(3), I(7)>>), ArgList(<<I(3), I(2)>>)}
ObsSpecific == {ArgNone, ArgScalar(I(10)), ArgList(<<I(2), I(6)>>)}
ObsIntegerArgs ==
    {IntegerArgs(div, less, more, specific) :
        div \in ObsDivisors, less \in {None, I(-1)}, more \in {None, I(9)},
        specific \in ObsSpecific}
ObsCounterArgs ==
    {CounterArgs(every, rel, first, lastv, range.less, range.more, specific, I(0)) :
        every \in {ArgNone, ArgList(<<I(3), I(7)>>)},
        rel \in {F(1, 2), I(4), None},
        first \in BOOLEAN,
        lastv \in {None, I(10), I(6), I(0)},
        range \in {[less |-> None, more |-> None], [less |-> I(-1), more |-> I(9)]},
        specific \in ObsSpecific}

ObsValues == {I(k) : k \in (-ObsLow)..ObsHigh}

\* One observer is constructed, on the wrapper as it was made.
WatchInteger == \E args \in ObsIntegerArgs : last.kind = "new" /\ ConstructInteger(args)
WatchCounter == \E args \in ObsCounterArgs : last.kind = "new" /\ ConstructCounter(args)
\* wrapper.set(v)
Observe == \E v \in ObsValues : registry # <<>> /\ Commit(SetValue(v))
\* wrapper += 1
CountUp ==
    /\ registry # <<>>
    /\ val.n < ObsHigh
    /\ Commit(Augmented("__iadd__", "add", I(1)))

InitObs == \E v \in {I(0), I(-2)} : NewWrapper(v, PolicyStr("round"))
NextObs == WatchInteger \/ WatchCounter \/ Observe \/ CountUp
SpecObs == InitObs /\ [][NextObs]_vars

\* -------------------------------------- two equal observers (SpecTwin)
\* A second observer of the same class and with the same fields as the one
\* already watching, constructed on the wrapper as it is by then.
TwinInteger ==
    /\ observers["io"].kind = "integer"
    /\ observers["co"].kind = "none"
    /\ Registered("co", Built("integer", observers["io"].cfg, val))
TwinCounter ==
    /\ observers["co"].kind = "counter"
    /\ observers["io"].kind = "none"
    /\ Registered("io", Built("counter", observers["co"].cfg, val))

\* Constructor arguments of the first observer.
TwinIntegerArgs ==
    {a \in ObsIntegerArgs :
        /\ a.at_specific_value # ArgScalar(I(10))
        /\ (a.if_less_than = None) = (a.if_more_than = None)}
TwinCounterArgs ==
    {a \in ObsCounterArgs :
        /\ a.at_every # ArgNone
        /\ a.at_relative # None
        /\ a.last_value # I(10)
        /\ a.at_specific_value # ArgScalar(I(10))}

FirstInteger == \E args \in TwinIntegerArgs : last.kind = "new" /\ ConstructInteger(args)
FirstCounter == \E args \in TwinCounterArgs : last.kind = "new" /\ ConstructCounter(args)

NextTwin == FirstInteger \/ FirstCounter \/ Observe \/ CountUp \/ TwinInteger \/ TwinCounter
SpecTwin == InitObs /\ [][NextTwin]_vars

\* ------------------------- an integer observer and a counter (SpecSide)
\* A counter constructed next to the integer observer, with the same
\* thresholds and the counter arguments drawn here.
SideRelative == {F(1, 2), I(4)}
SideLast == {None, I(6), I(0)}
SideCounter ==
    \E rel \in SideRelative, first \in BOOLEAN, lastv \in SideLast :
        /\ observers["io"].kind = "integer"
        /\ last.kind = "construct"
        /\ ConstructCounter(CounterArgs(observers["io"].cfg.divisible_by, rel, first, lastv,
                                        observers["io"].cfg.if_less_than,
                                        observers["io"].cfg.if_more_than,
                                        ArgList(observers["io"].cfg.at_specific_value),
                                        I(0)))

NextSide == FirstInteger \/ SideCounter \/ Observe \/ CountUp
SpecSide == InitObs /\ [][NextSide]_vars

\* --------------------------------------------- the demonstration (SpecDemo)
\* The thresholds of the demonstration, on an IntegerConditionObserver and on
\* the CounterConditionObserver of __main__ (lines 110-117).
DemoInteger == IntegerArgs(ArgList(<<I(3), I(7)>>), I(-1), I(9), ArgList(<<I(2), I(6)>>))
DemoCounter ==
    CounterArgs(ArgList(<<I(3), I(7)>>), F(1, 2), TRUE, I(10), I(-1), I(9),
                ArgList(<<I(2), I(6)>>), I(0))

DemoWatchInteger == ConstructInteger(DemoInteger)
DemoWatchCounter == ConstructCounter(DemoCounter)
\* for _ in range(12): obs_int += 1
DemoIncrement ==
    /\ val.n < DemoStart + DemoIncrements
    /\ Commit(Augmented("__iadd__", "add", I(1)))

InitDemo == NewWrapper(I(DemoStart), PolicyStr("round"))
NextDemo == DemoWatchInteger \/ DemoWatchCounter \/ DemoIncrement
SpecDemo == InitDemo /\ [][NextDemo]_vars

\* ------------------------------------------ the coercion step (SpecCoerce)
\* Policies in several letter cases, and the callables of the model.
CoercePolicies ==
    Policies \cup {PolicyStr("ROUND"), PolicyStr("Int"), PolicyStr("INT"), PolicyFn("ceil")}

\* Values of the coercion specification: magnitude at most MaxAbs, denominators
\* up to 2^(MaxDenLog + 1), so that floats off the halves occur.
CoerceFits(x) ==
    /\ x.n <= MaxAbs * x.d
    /\ -x.n <= MaxAbs * x.d
    /\ \E k \in 0..(MaxDenLog + 1) : x.d = Pow(2, k)

\* Floats the coercion specification sets, among them the integral ones (1.0).
CoerceFloats == {F(k, 4) : k \in (-4 * MaxAbs)..(4 * MaxAbs)}
CoerceDivisors == {I(2), I(4), I(-4)}

\* wrapper.set(v) with a float v
CoerceSet == \E v \in CoerceFloats : Commit(SetValue(v))
\* wrapper /= other
CoerceDiv ==
    \E other \in CoerceDivisors :
        /\ CoerceFits(Augmented("__itruediv__", "truediv", other).val)
        /\ Commit(Augmented("__itruediv__", "truediv", other))
\* wrapper -= 1
CoerceSub ==
    /\ CoerceFits(Augmented("__isub__", "sub", I(1)).val)
    /\ Commit(Augmented("__isub__", "sub", I(1)))

InitCoerce == \E v \in InitialValues, pol \in CoercePolicies : NewWrapper(v, pol)
NextCoerce == CoerceSet \/ CoerceDiv \/ CoerceSub
SpecCoerce == InitCoerce /\ [][NextCoerce]_vars

\* ------------------------------------------------- properties of the pipeline
\* A step is a mutating call that sent its event to the hub.
SentEvent == last'.kind = "mutate" /\ last'.phase \in {"done", "notify"}

\* C1: every event delivered to the observers carries previous = the wrapper's
\* value immediately before the operation and new_val = the value after the
\* coercion step, which is the value the wrapper holds when the call returns.
C1_EventPreviousAndNew ==
    [][SentEvent => (event'.previous = val /\ event'.new_val = val')]_vars

\* C1 witness: 1 /= 2 under a rounding policy sent previous = 1, new_val = 0.
C1_Witness ==
    /\ last = Call("mutate", "done", "")
    /\ event = Event("__itruediv__", I(2), I(1), I(0))
    /\ val = I(0)

\* The policies _ireturn rejects: an unrecognized string, or neither a string
\* nor a callable.
RejectingPolicies == {PolicyStr("truncate"), PolicyOther}

\* C2: under a rejecting policy, a mutating call that leaves a non-integer value
\* fails with an error and invokes no observer: every observer keeps its status
\* and reason, and no event is sent.
C2_RejectInvokesNoObserver ==
    [][(policy \in RejectingPolicies /\ last'.kind = "mutate" /\ ~IsInt(val'))
          => (last'.exc # "" /\ ret'.exc # "" /\ observers' = observers /\ event' = event)]_vars

\* C2 witness: the policy "truncate" rejected 1 / 2 after the observers had
\* processed an event whose new value is 1.
C2_Witness ==
    /\ policy = PolicyStr("truncate")
    /\ last = Call("mutate", "coerce", "ValueError")
    /\ val = F(1, 2)
    /\ event.new_val = I(1)
    /\ observers["co"].status

\* C3 (as claimed): after every mutating call that completes without error the
\* wrapper's value is an integer, for 'round', 'int' and any custom function.
C3_ValueIsInteger ==
    (last.kind = "mutate" /\ last.exc = "" /\ policy \notin RejectingPolicies) => IsInt(val)

\* C9: a mutating call whose arithmetic raises propagates the error, sends no
\* event and is atomic: value and observers are what they were before the call.
C9_ArithmeticFailureIsAtomic ==
    [][(last'.kind = "mutate" /\ last'.phase = "arith")
          => (last'.exc # "" /\ ret' = Raised(last'.exc)
              /\ val' = val /\ observers' = observers /\ event' = event)]_vars

\* C9 witness: a division by zero after an event had been processed.
C9_Witness ==
    /\ last = Call("mutate", "arith", "ZeroDivisionError")
    /\ event # NoEvent
    /\ val = event.new_val
    /\ observers["io"].status

\* C8: the read-only operators leave the wrapper's value, final_value and
\* policy unchanged and never call the hub: no event, no observer changes.
C8_ReadOnlyChangesNothing ==
    [][last'.kind = "read"
          => UNCHANGED <<val, final_value, policy, observers, registry, event>>]_vars

\* C8 witness: a read-only operator returned a value other than the wrapper's
\* while observers hold the result of an earlier event.
C8_Witness ==
    /\ last = Call("read", "done", "")
    /\ ret = Returned(<<I(2)>>)
    /\ val = I(0)
    /\ event.new_val = I(0)
    /\ observers["io"].status

\* C6 (as claimed): once range(*args) has been consumed, final_value is the
\* upper bound minus 1, the wrapper was yielded once per value of the native
\* range with that value, and each step sent one event.
C6_RangeYieldsEveryValue ==
    gen.state \in {"done", "raised"}
        => /\ gen.state = "done"
           /\ final_value = I(Upper(gen.args) - 1)
           /\ gen.yielded = [k \in 1..Len(NativeRange(gen.args)) |-> I(NativeRange(gen.args)[k])]
           /\ gen.sent = Len(NativeRange(gen.args))

\* The binary operator behind each augmented assignment.
OpOf(method) ==
    CASE method = "__iadd__" -> "add"
      [] method = "__isub__" -> "sub"
      [] method = "__imul__" -> "mul"
      [] method = "__itruediv__" -> "truediv"
      [] method = "__ifloordiv__" -> "floordiv"
      [] method = "__imod__" -> "mod"
      [] method = "__ipow__" -> "pow"
      [] method = "__ilshift__" -> "lshift"
      [] method = "__irshift__" -> "rshift"
      [] method = "__iand__" -> "and"
      [] method = "__ixor__" -> "xor"
      [] method = "__ior__" -> "or"

\* The value the operation of event ev left before the coercion step.
Uncoerced(ev) ==
    IF ev.method = "set" THEN ev.other
    ELSE BinOp(OpOf(ev.method), ev.previous, ev.other).v

\* k is an integer nearest to v; k is v truncated toward zero.
IsNearest(k, v) == 2 * Abs(k * v.d - v.n) <= v.d
IsTruncation(k, v) ==
    IF v.n >= 0 THEN k * v.d <= v.n /\ v.n < (k + 1) * v.d
    ELSE (k - 1) * v.d < v.n /\ v.n <= k * v.d

RoundSpellings == {"round", "Round", "ROUND"}
IntSpellings == {"int", "Int", "INT"}

\* The value stored for the non-integer v under policy pol is `stored`.
CoercedAs(pol, v, stored) ==
    IF pol.kind = "str" /\ pol.s \in RoundSpellings
    THEN IsInt(stored) /\ IsNearest(stored.n, v)
    ELSE IF pol.kind = "str" /\ pol.s \in IntSpellings
         THEN IsInt(stored) /\ IsTruncation(stored.n, v)
    ELSE pol.kind = "callable" /\ stored = ApplyFn(pol.s, v).v

\* C11: when a mutating call leaves a non-integer v, the stored value is the
\* nearest integer to v under "round" in any letter case, v truncated toward
\* zero under "int" in any letter case, and policy(v) under a callable; under
\* any other string or a non-callable the call raises.
C11_CoercionStep ==
    [][(last'.kind = "mutate" /\ last'.phase # "arith")
          => IF last'.phase = "coerce"
             THEN /\ last'.exc # ""
                  /\ ~IsInt(val')
                  /\ policy.kind # "callable"
                  /\ policy.kind = "str" => policy.s \notin (RoundSpellings \cup IntSpellings)
             ELSE ~IsInt(Uncoerced(event')) => CoercedAs(policy, Uncoerced(event'), val')]_vars

\* C11 witness: under "INT", -3 / 4 = -0.75 was stored as 0 (the nearest
\* integer is -1).
C11_Witness ==
    /\ policy = PolicyStr("INT")
    /\ last = Call("mutate", "done", "")
    /\ event = Event("__itruediv__", I(4), I(-3), I(0))
    /\ val = I(0)

\* C12: for every policy, a mutating call whose result is already an integer
\* stores that result unchanged, does not fail in the coercion step and sends
\* its event with that result as the new value.
C12_IntegerResultSkipsPolicy ==
    [][(last'.kind = "mutate" /\ last'.phase # "arith")
          => IF last'.phase = "coerce" THEN ~IsInt(val')
             ELSE IsInt(Uncoerced(event'))
                     => (val' = Uncoerced(event') /\ event'.new_val = val' /\ last'.exc = "")]_vars

\* C12 witness: 1 * 2 under the unrecognized policy "truncate", with the
\* observers notified of 2.
C12_Witness ==
    /\ policy = PolicyStr("truncate")
    /\ last = Call("mutate", "done", "")
    /\ event = Event("__imul__", I(2), I(1), I(2))
    /\ val = I(2)
    /\ observers["co"].reason.tag = "Relative"

\* The augmented assignments of the pipeline.
MutatingMethods ==
    {"__iadd__", "__isub__", "__imul__", "__itruediv__", "__ifloordiv__", "__imod__",
     "__ipow__", "__ilshift__", "__irshift__", "__iand__", "__ixor__", "__ior__"}

\* w is what a mutating call of the pipeline computes on the value v.
ResultOfCall(v, w) ==
    \/ w \in Operands
    \/ \E method \in MutatingMethods, other \in Operands :
          BinOp(OpOf(method), v, other) = Ok(w)

\* C13: a call rejected by the coercion step is not rolled back: the wrapper
\* holds the non-integer result of the operation, and the next mutating call
\* that sends an event sends that value as `previous`.
C13_RejectedValueStays ==
    [][/\ (last'.kind = "mutate" /\ last'.phase = "coerce")
             => (~IsInt(val') /\ ResultOfCall(val, val'))
       /\ (last.kind = "mutate" /\ last.phase = "coerce" /\ SentEvent)
             => (event'.previous = val /\ ~IsInt(event'.previous))]_vars

\* C13 witness: after 1 / 2 was rejected, set(0) sent previous = 0.5.
C13_Witness ==
    /\ policy \in RejectingPolicies
    /\ last = Call("mutate", "done", "")
    /\ event = Event("set", I(0), F(1, 2), I(0))
    /\ val = I(0)

\* The value the observers of the pipeline were last told: the new value of
\* the last event, or before any event the value they were initialized with,
\* which their reasons record (0 is divisible by 3, 1 is a specific value).
ToldAtConstruction ==
    IF observers["io"].reason.tag = "Divisible" THEN observers["io"].reason.v
    ELSE observers["co"].reason.v
Told == IF event = NoEvent THEN ToldAtConstruction ELSE event.new_val

\* The wrapper holds a value the coercion step rejected.
HoldsRejected == policy \in RejectingPolicies /\ ~IsInt(val)

\* C19 (as claimed): the previous value of each event equals the new value of
\* the event delivered just before it, or the wrapper's value at observer
\* construction for the first event, also after calls that failed.
C19_EventChain == [][SentEvent => event'.previous = Told]_vars

\* C19 (amended): the previous value of each event is the wrapper's value
\* before the call; it is the value the observers were last told, unless a
\* call since then was rejected by the coercion step, and then it is the
\* non-integer value that call left in the wrapper.
C19_EventChainAmended ==
    [][SentEvent => /\ event'.previous = val
                    /\ IF HoldsRejected THEN ~IsInt(event'.previous)
                       ELSE event'.previous = Told]_vars

\* C19 witness: under a rejecting policy, set(2) sent previous = -1, the
\* integer the observers had been told before.
C19_Witness ==
    /\ last = Call("mutate", "done", "")
    /\ event = Event("set", I(2), I(-1), I(2))
    /\ policy = PolicyStr("truncate")
    /\ observers["io"].reason = NoReason

\* ------------------------------------------------ properties of the observers
\* In SpecObs and SpecDemo every call evaluates the observer on the value the
\* wrapper then holds, so val is the new value of the observer's last event.
Divisors(cfg) == IF cfg.divisible_by.form = "none" THEN <<>> ELSE cfg.divisible_by.items
Dividing(cfg, v) == {i \in 1..Len(Divisors(cfg)) : v.n % Divisors(cfg)[i].n = 0}
FirstDividing(cfg, v) ==
    Divisors(cfg)[CHOOSE i \in Dividing(cfg, v) : \A j \in Dividing(cfg, v) : i <= j]
IsLess(cfg, v) == cfg.if_less_than # None /\ v.n < cfg.if_less_than.n
IsMore(cfg, v) == cfg.if_more_than # None /\ v.n > cfg.if_more_than.n
Holds(o, st, rs) == o.status = st /\ o.reason = rs

\* C4: an IntegerConditionObserver decides by the first predicate that matches,
\* in the order at_specific_value, divisible_by (in list order), if_less_than,
\* if_more_than (both strict); a value both specific and divisible is reported
\* as specific; if none matches, status is False and reason None.
C4_FixedPriorityOrder ==
    LET o == observers["io"]
        c == o.cfg
    IN o.kind = "integer" =>
          IF InList(val, c.at_specific_value)
          THEN Holds(o, TRUE, Reason("Specific", val, None))
          ELSE IF Dividing(c, val) # {}
               THEN Holds(o, TRUE, Reason("Divisible", val, FirstDividing(c, val)))
          ELSE IF IsLess(c, val) THEN Holds(o, TRUE, Reason("Less", val, c.if_less_than))
          ELSE IF IsMore(c, val) THEN Holds(o, TRUE, Reason("More", val, c.if_more_than))
          ELSE Holds(o, FALSE, NoReason)

\* C4 witness: 6 is a specific value and divisible by 3 and by 2.
C4_Witness ==
    /\ observers["io"].kind = "integer"
    /\ last.kind = "mutate"
    /\ val = I(6)
    /\ observers["io"].cfg.at_specific_value = <<I(2), I(6)>>
    /\ Divisors(observers["io"].cfg) = <<I(3), I(2)>>
    /\ observers["io"].reason = Reason("Specific", I(6), None)

\* The IntegerConditionObserver of the demonstration holds (st, rs) at value k.
DemoAt(k, st, rs) ==
    (observers["io"].kind = "integer" /\ val = I(k)) => Holds(observers["io"], st, rs)

\* C5 (as claimed): counting from -2 in steps of 1, the observer is triggered at
\* -2 by less-than -1, at 0 by divisibility by 3, not triggered at 9, and
\* triggered at 10 by more-than 9.
C5_DemoSequence ==
    /\ DemoAt(-2, TRUE, Reason("Less", I(-2), I(-1)))
    /\ DemoAt(0, TRUE, Reason("Divisible", I(0), I(3)))
    /\ DemoAt(9, FALSE, NoReason)
    /\ DemoAt(10, TRUE, Reason("More", I(10), I(9)))

\* C5 (amended): as claimed, except that at 9 the observer is triggered by
\* divisibility by 3.
C5_DemoSequenceAmended ==
    /\ DemoAt(-2, TRUE, Reason("Less", I(-2), I(-1)))
    /\ DemoAt(0, TRUE, Reason("Divisible", I(0), I(3)))
    /\ DemoAt(9, TRUE, Reason("Divisible", I(9), I(3)))
    /\ DemoAt(10, TRUE, Reason("More", I(10), I(9)))

\* C5 witness: the twelfth increment took the watched wrapper from 9 to 10.
C5_Witness ==
    /\ observers["io"].kind = "integer"
    /\ event = Event("__iadd__", I(1), I(9), I(10))
    /\ val = I(DemoStart + DemoIncrements)
    /\ observers["io"].reason.tag = "More"

\* C7: a counter with first_val = 0 and if_first_count holds status True and the
\* reason "First count." at 0; at last_value (a value other than the first) it
\* holds status True and "Last count.", whatever the integer chain matched.
C7_FirstAndLastOverride ==
    LET o == observers["co"]
        c == o.cfg
        first == c.if_first_iteration /\ c.first_val = I(0) /\ val = I(0)
    IN o.kind = "counter" =>
          /\ first => Holds(o, TRUE, Reason("First", None, None))
          /\ (c.last_value # None /\ val = c.last_value /\ ~first)
                => Holds(o, TRUE, Reason("Last", None, None))

\* C7 witness: at last_value = 10 the integer chain matches too (10 is a
\* specific value, and more than 9).
C7_Witness ==
    /\ observers["co"].kind = "counter"
    /\ observers["co"].cfg.if_first_iteration
    /\ observers["co"].cfg.last_value = I(10)
    /\ observers["co"].cfg.at_specific_value = <<I(10)>>
    /\ observers["co"].cfg.if_more_than = I(9)
    /\ event.previous = I(0)
    /\ val = I(10)
    /\ observers["co"].reason = Reason("Last", None, None)

\* C10 (as claimed): when last_value and at_relative are set, neither the first
\* nor the last predicate fires, step = round(last_value * at_relative) is
\* nonzero and divides the new value, the counter holds status True and the
\* reason naming the step and the fraction.
C10_RelativeSetsStatus ==
    LET o == observers["co"]
        c == o.cfg
    IN (/\ o.kind = "counter"
        /\ c.last_value # None /\ c.at_relative # None
        /\ ~(c.if_first_iteration /\ val = c.first_val)
        /\ val # c.last_value
        /\ RelativeStep(c) # 0
        /\ val.n % RelativeStep(c) = 0)
       => Holds(o, TRUE, Reason("Relative", I(RelativeStep(c)), c.at_relative))

\* C14: constructing an observer evaluates the whole chain on the wrapper's
\* current value: a change event carrying that same value as its new value,
\* sent right after the construction, leaves every status and reason as the
\* constructor set them.
C14_ConstructionEvaluates ==
    [][(/\ last.kind = "construct" /\ registry # <<>>
        /\ last'.kind = "mutate" /\ last'.phase \in {"done", "notify"}
        /\ event'.new_val = val)
          => observers' = observers]_vars

\* C14 witness: a counter constructed on -2 with if_less_than = -1 and then
\* sent set(-2) holds the less-than reason.
C14_Witness ==
    /\ observers["co"].kind = "counter"
    /\ event = Event("set", I(-2), I(-2), I(-2))
    /\ observers["co"].status
    /\ observers["co"].reason = Reason("Less", I(-2), I(-1))

\* C15: status and reason after an event depend on the event's new value and
\* the observer's fields only: two observers of the same class with equal
\* fields, one of which has processed earlier events the other never saw,
\* hold the same status and reason once both have processed the same event
\* (or the later one has just been constructed on the value of that event).
C15_NoAccumulation ==
    (/\ observers["io"].kind # "none" /\ observers["co"].kind # "none"
     /\ last.kind = "construct" \/ (last.kind = "mutate" /\ last.phase = "done"))
        => /\ observers["io"].status = observers["co"].status
           /\ observers["io"].reason = observers["co"].reason

\* C15 witness: two counters, the second constructed after the first had been
\* triggered at 0; both processed the event 4 -> 5 and are not triggered.
C15_Witness ==
    /\ registry = <<"co", "io">>
    /\ observers["io"].kind = "counter"
    /\ observers["io"].cfg = observers["co"].cfg
    /\ observers["co"].cfg.if_first_iteration
    /\ event = Event("__iadd__", I(1), I(4), I(5))
    /\ last = Call("mutate", "done", "")
    /\ ~observers["io"].status /\ observers["io"].reason = NoReason

\* C16 (as claimed): the evaluation of an observer never raises, neither in the
\* constructor's _initialize nor during the notification of a mutating call,
\* whatever the divisors, last_value and at_relative.
C16_EvaluationCompletes ==
    (last.phase \in {"initialize", "notify"}) => last.exc = ""

\* C18 (as claimed): every constructed observer has status True exactly when
\* its reason is not None.
C18_StatusIffReason ==
    \A id \in ObsIds :
        observers[id].kind # "none"
            => (observers[id].status <=> observers[id].reason # NoReason)

\* C20 (as claimed): the constructor's at_relative line never raises, also when
\* at_relative is left None; an observer so constructed is registered, and its
\* reason is never the relative one; an integer at_relative K is stored as the
\* float 1/K.
C20_OptionalRelative ==
    /\ ~(last.kind = "construct" /\ last.phase = "arith")
    /\ (last.kind = "construct" /\ observers["co"].kind = "counter") => "co" \in {registry[i] : i \in 1..Len(registry)}
    /\ (observers["co"].kind = "counter" /\ observers["co"].cfg.at_relative = None)
          => observers["co"].reason.tag # "Relative"
    /\ observers["co"].kind = "counter"
          => observers["co"].cfg.at_relative \in {None, F(1, 2), F(1, 4)}

\* A counter predicate fires on the value v.
FirstFires(c, v) == c.if_first_iteration /\ v = c.first_val
LastFires(c, v) == c.last_value # None /\ v = c.last_value
RelativeFires(c, v) ==
    /\ c.last_value # None /\ c.at_relative # None
    /\ RelativeStep(c) # 0
    /\ v.n % RelativeStep(c) = 0

\* C17: a counter running next to an integer observer with the same
\* thresholds holds the same status and reason whenever none of its first,
\* last and relative predicates fires on the current value; with
\* if_first_count False and last_value None that is after construction and
\* after every event.
C17_CounterInheritsChain ==
    (/\ observers["io"].kind = "integer" /\ observers["co"].kind = "counter"
     /\ \/ ~observers["co"].cfg.if_first_iteration /\ observers["co"].cfg.last_value = None
        \/ ~(\/ FirstFires(observers["co"].cfg, val)
             \/ LastFires(observers["co"].cfg, val)
             \/ RelativeFires(observers["co"].cfg, val)))
        => /\ observers["co"].status = observers["io"].status
           /\ observers["co"].reason = observers["io"].reason

\* C17 witness: a counter with first, last (6) and relative (step 2)
\* predicates holds the integer chain's "3 divisible by 3" at 3.
C17_Witness ==
    /\ observers["io"].kind = "integer"
    /\ observers["co"].kind = "counter"
    /\ observers["co"].cfg.if_first_iteration
    /\ observers["co"].cfg.last_value = I(6)
    /\ observers["co"].cfg.at_relative = F(1, 4)
    /\ last = Call("mutate", "done", "")
    /\ val = I(3)
    /\ observers["co"].reason = Reason("Divisible", I(3), I(3))
    /\ observers["io"].reason = Reason("Divisible", I(3), I(3))

====
